---- MODULE Spec2Model ----
(***************************************************************************)
(* veet-code-go: AWS Lambda handlers over two DynamoDB tables.             *)
(*   - veet_code_questions_table: solved practice questions                *)
(*   - studies_table: study sessions                                       *)
(* Ingestion handlers write items; reporting handlers scan the whole table *)
(* and aggregate it (generateStatistics).                                  *)
(*                                                                         *)
(* Go strings that the code parses or compares (dates, minutes) are        *)
(* sequences of bytes; labels that are only used as map keys (themes,      *)
(* tags, difficulties, names) are TLA+ strings.  A Go slice whose nil-ness *)
(* is observable is a record [nil, elems].                                 *)
(***************************************************************************)
EXTENDS Integers, Sequences, FiniteSets, TLC

VARIABLES questions_table, studies_table, response, previous

vars == <<questions_table, studies_table, response, previous>>

\* ------------------------------------------------------------------ bounds

\* stored items over both tables
MaxItems == 3
\* records in one batch ingestion request
MaxRequest == 2

\* ----------------------------------------------------------------- strings

Ord ==
  [c \in {"0","1","2","3","4","5","6","7","8","9","/","-","+","a","d","e","n","o","t"} |->
     CASE c = "0" -> 48 [] c = "1" -> 49 [] c = "2" -> 50 [] c = "3" -> 51
       [] c = "4" -> 52 [] c = "5" -> 53 [] c = "6" -> 54 [] c = "7" -> 55
       [] c = "8" -> 56 [] c = "9" -> 57 [] c = "/" -> 47 [] c = "-" -> 45
       [] c = "+" -> 43 [] c = "a" -> 97 [] c = "d" -> 100 [] c = "e" -> 101
       [] c = "n" -> 110 [] c = "o" -> 111 [] c = "t" -> 116]

\* the bytes of a string given by its characters
Str(cs) == [i \in 1..Len(cs) |-> Ord[cs[i]]]

\* Go's < on strings: byte-wise lexicographic, a proper prefix is smaller
StrLess(a, b) ==
  \E i \in 1..Len(b) :
     /\ i <= Len(a) + 1
     /\ \A j \in 1..(i - 1) : a[j] = b[j]
     /\ (i = Len(a) + 1 \/ a[i] < b[i])

IsDigit(b) == b \in 48..57

AllDigits(s) == \A i \in 1..Len(s) : IsDigit(s[i])

RECURSIVE DigitsValue(_)
DigitsValue(s) ==
  IF s = <<>> THEN 0
  ELSE 10 * DigitsValue(SubSeq(s, 1, Len(s) - 1)) + (s[Len(s)] - 48)

\* ------------------------------------------------------------------- strconv

\* strconv.Atoi: optional sign, then at least one decimal digit.
\* [err, n]; n is 0 when err.
Atoi(s) ==
  LET signed == Len(s) > 0 /\ s[1] \in {43, 45}
      digits == IF signed THEN SubSeq(s, 2, Len(s)) ELSE s
  IN  IF digits = <<>> \/ ~AllDigits(digits)
      THEN [err |-> TRUE, n |-> 0]
      ELSE [err |-> FALSE,
            n |-> IF signed /\ s[1] = 45 THEN 0 - DigitsValue(digits)
                  ELSE DigitsValue(digits)]

RECURSIVE UItoa(_)
UItoa(n) ==
  IF n < 10 THEN <<48 + n>> ELSE Append(UItoa(n \div 10), 48 + (n % 10))

\* strconv.Itoa
Itoa(n) == IF n < 0 THEN <<45>> \o UItoa(0 - n) ELSE UItoa(n)

\* ---------------------------------------------------------------------- time

isLeap(y) == y % 4 = 0 /\ (y % 100 # 0 \/ y % 400 = 0)

daysIn(m, y) ==
  IF m = 2 THEN (IF isLeap(y) THEN 29 ELSE 28)
  ELSE IF m \in {4, 6, 9, 11} THEN 30 ELSE 31

\* an instant at midnight UTC, ordered as the calendar is
Date(y, m, d) == y * 10000 + m * 100 + d

\* time.Time{}: January 1, year 1
ZeroTime == Date(1, 1, 1)

\* time.Parse("02/01/2006", s): two-digit day, "/", two-digit month, "/",
\* four-digit year, nothing after; month and day in range.
\* [err, t]; t is the zero time when err.
timeParse(s) ==
  LET shaped == /\ Len(s) = 10
                /\ s[3] = 47 /\ s[6] = 47
                /\ \A i \in {1, 2, 4, 5, 7, 8, 9, 10} : IsDigit(s[i])
      d == DigitsValue(SubSeq(s, 1, 2))
      m == DigitsValue(SubSeq(s, 4, 5))
      y == DigitsValue(SubSeq(s, 7, 10))
  IN  IF shaped /\ m \in 1..12 /\ d >= 1 /\ d <= daysIn(m, y)
      THEN [err |-> FALSE, t |-> Date(y, m, d)]
      ELSE [err |-> TRUE, t |-> ZeroTime]

\* time.Time.Before
Before(t, u) == t < u

\* ---------------------------------------------------------------- containers

NilSlice == [nil |-> TRUE, elems |-> <<>>]
EmptySlice == [nil |-> FALSE, elems |-> <<>>]

\* append(s, x)
GoAppend(s, x) == [nil |-> FALSE, elems |-> Append(s.elems, x)]

\* make(map[K]int)
EmptyMap == [k \in {} |-> 0]

\* m[k], the zero value when k is absent
MapGet(m, k) == IF k \in DOMAIN m THEN m[k] ELSE 0

\* m[k] = v
MapSet(m, k, v) == [x \in DOMAIN m \cup {k} |-> IF x = k THEN v ELSE m[x]]

\* m[k] += v
MapAdd(m, k, v) == MapSet(m, k, MapGet(m, k) + v)

\* the orders in which a slice of the given elements can be arranged
Perms(s) == {[i \in 1..Len(s) |-> s[f[i]]] : f \in Permutations(1..Len(s))}

\* A table is the sequence of its items in the order a scan returns them.
\* That order is storage's own: a new item may land anywhere in it.
PutInto(table, item) ==
  {SubSeq(table, 1, k) \o <<item>> \o SubSeq(table, k + 1, Len(table)) : k \in 0..Len(table)}

RECURSIVE PutAllInto(_, _)
PutAllInto(table, items) ==
  IF items = <<>> THEN {table}
  ELSE UNION {PutAllInto(t, Tail(items)) : t \in PutInto(table, Head(items))}

StoredItems == Len(questions_table) + Len(studies_table)

\* ------------------------------------------------------------- invocations
\* Each program is lambda.Start(Handler): an invocation is answered before
\* the next one is taken.  response holds the answer to the last invocation,
\* NoResponse while an invocation is pending; previous holds the answer to the
\* invocation before it.

NoResponse == [handler |-> "none"]

Pending == response = NoResponse

\* the next invocation arrives; previous keeps the answer to the one before
NextInvocation ==
  /\ ~Pending
  /\ previous' = response
  /\ response' = NoResponse
  /\ UNCHANGED <<questions_table, studies_table>>

\* --------------------------------------------------------------- input values

D_15_01_2024 == Str(<<"1","5","/","0","1","/","2","0","2","4">>)
D_01_02_2024 == Str(<<"0","1","/","0","2","/","2","0","2","4">>)
D_10 == Str(<<"1","0","/">>)
D_not_a_date == Str(<<"n","o","t","-","a","-","d","a","t","e">>)

Dates == {D_15_01_2024, D_01_02_2024, D_10, D_not_a_date}
Themes == {"math", "algo"}

\* time.Parse of each date, computed once
Parsed == [s \in Dates |-> timeParse(s)]

\* the study requests the ingestion handlers are fed: a valid one, one more,
\* one with negative minutes, one with non-numeric minutes
StudyRequests ==
  {[StudyTheme |-> "math", StudyDate |-> D_15_01_2024, StudyMinutes |-> Str(<<"3","0">>)],
   [StudyTheme |-> "algo", StudyDate |-> D_01_02_2024, StudyMinutes |-> Str(<<"+","3","0">>)],
   [StudyTheme |-> "math", StudyDate |-> D_not_a_date, StudyMinutes |-> Str(<<"-","5">>)],
   [StudyTheme |-> "algo", StudyDate |-> D_10, StudyMinutes |-> Str(<<"t","e","n">>)]}

\* the items a studies_table is made of when a report is asked for
StudyItems ==
  [study_theme : Themes, study_date : Dates,
   minutes_of_study : {Str(<<"3","0">>), Str(<<"-","5">>)}]

\* json.Marshal of a slice: null for a nil slice, an array otherwise
jsonMarshalSlice(slice) == [null |-> slice.nil, array |-> slice.elems]

\* the tags attribute of a question item
jsonMarshalTags(tags) == jsonMarshalSlice(tags)

\* json.Unmarshal into a nil []string: null leaves it nil
jsonUnmarshalTags(text) == [nil |-> text.null, elems |-> text.array]

TagLists == {NilSlice,
             [nil |-> FALSE, elems |-> <<"array", "dp">>],
             [nil |-> FALSE, elems |-> <<"dp", "dp">>]}

\* the items a veet_code_questions_table is made of when a report is asked for
QuestionItems ==
  [question_name : {"two-sum"}, question_solved_date : Dates,
   difficulty : {"easy"}, tags : {jsonMarshalTags(t) : t \in TagLists}]
    \cup [question_name : {"lru-cache"}, question_solved_date : Dates,
          difficulty : {"hard"}, tags : {jsonMarshalTags(NilSlice)}]

\* the tables of at most n items
Tables(items, n) == UNION {[1..k -> items] : k \in 0..n}

\* --------------------------------------------- studies_table: ingestion
\* src/unnamed/part_001 (single study) and the second program of
\* src/study_statistics/lambda_retrieve_ordered_stats_from_studies.go (batch)

\* the item a study is stored as: minutes_of_study is an N attribute holding
\* strconv.Itoa(minutes)
StudyItem(study, minutes) ==
  [study_theme |-> study.StudyTheme,
   study_date |-> study.StudyDate,
   minutes_of_study |-> Itoa(minutes)]

\* putItemToDynamoDB (study): the outcomes of one call.  putOk is whether
\* PutItem succeeds.
putItemToDynamoDB_Study(request, putOk) ==
  LET parsed == Atoi(request.StudyMinutes)
  IN  IF parsed.err
      THEN [err |-> "invalid minutes_of_study", calls |-> <<>>, written |-> <<>>]
      ELSE LET item == StudyItem(request, parsed.n)
           IN  IF putOk
               THEN [err |-> "", calls |-> <<<<item>>>>, written |-> <<item>>]
               ELSE [err |-> "failed to put item in DynamoDB",
                     calls |-> <<<<item>>>>, written |-> <<>>]

\* Handler of the single-study ingestion
AddStudy ==
  \E request \in StudyRequests, putOk \in BOOLEAN :
    LET r == putItemToDynamoDB_Study(request, putOk)
    IN  /\ Pending
        /\ StoredItems + Len(r.written) <= MaxItems
        /\ studies_table' \in PutAllInto(studies_table, r.written)
        /\ response' = [handler |-> "add_study",
                        request |-> <<request>>,
                        err |-> r.err,
                        statusCode |-> IF r.err = "" THEN 200 ELSE 0,
                        calls |-> r.calls,
                        written |-> r.written,
                        count |-> IF r.err = "" THEN 1 ELSE 0]
        /\ UNCHANGED <<questions_table, previous>>

\* the batch size of putMultipleItemsToDynamoDB
maxBatchSize == 25

Min(a, b) == IF a < b THEN a ELSE b

RECURSIVE validateStudies_SkipsInvalid(_, _)
\* mutant: a study whose minutes do not convert is skipped
validateStudies_SkipsInvalid(studies, writeRequests) ==
  IF studies = <<>> THEN [err |-> FALSE, writeRequests |-> writeRequests]
  ELSE LET parsed == Atoi(Head(studies).StudyMinutes)
       IN  IF parsed.err THEN validateStudies_SkipsInvalid(Tail(studies), writeRequests)
           ELSE validateStudies_SkipsInvalid(
                  Tail(studies),
                  Append(writeRequests, StudyItem(Head(studies), parsed.n)))

RECURSIVE validateStudies(_, _)
\* the first loop of putMultipleItemsToDynamoDB: [err, writeRequests]
validateStudies(studies, writeRequests) ==
  IF studies = <<>> THEN [err |-> FALSE, writeRequests |-> writeRequests]
  ELSE LET parsed == Atoi(Head(studies).StudyMinutes)
       IN  IF parsed.err THEN [err |-> TRUE, writeRequests |-> writeRequests]
           ELSE validateStudies(Tail(studies),
                                Append(writeRequests, StudyItem(Head(studies), parsed.n)))

\* what storage may do with one BatchWriteItem call: fail, or return without
\* error having processed only some of the items
BatchResults(batch) ==
  {[err |-> TRUE, written |-> <<>>]}
    \cup {[err |-> FALSE, written |-> SubSeq(batch, 1, k)] : k \in 0..Len(batch)}

RECURSIVE writeBatches_NoSplit(_, _, _, _)
\* mutant: everything that is left goes into one call
writeBatches_NoSplit(writeRequests, i, calls, written) ==
  IF i >= Len(writeRequests)
  THEN {[err |-> "", calls |-> calls, written |-> written]}
  ELSE LET batch == SubSeq(writeRequests, i + 1, Len(writeRequests))
       IN  UNION {IF b.err
                  THEN {[err |-> "failed to batch write items to DynamoDB",
                         calls |-> Append(calls, batch), written |-> written]}
                  ELSE writeBatches_NoSplit(writeRequests, Len(writeRequests),
                                            Append(calls, batch), written \o b.written)
                  : b \in BatchResults(batch)}

RECURSIVE writeBatches(_, _, _, _)
\* the second loop of putMultipleItemsToDynamoDB, from index i (0-based):
\* the set of [err, calls, written] it can end with
writeBatches(writeRequests, i, calls, written) ==
  IF i >= Len(writeRequests)
  THEN {[err |-> "", calls |-> calls, written |-> written]}
  ELSE LET end == Min(i + maxBatchSize, Len(writeRequests))
           batch == SubSeq(writeRequests, i + 1, end)
       IN  UNION {IF b.err
                  THEN {[err |-> "failed to batch write items to DynamoDB",
                         calls |-> Append(calls, batch), written |-> written]}
                  ELSE writeBatches(writeRequests, i + maxBatchSize,
                                    Append(calls, batch), written \o b.written)
                  : b \in BatchResults(batch)}

\* putMultipleItemsToDynamoDB: the set of [err, calls, written] of one call
putMultipleItemsToDynamoDB(studies) ==
  LET v == validateStudies(studies, <<>>)
  IN  IF v.err
      THEN {[err |-> "invalid minutes_of_study", calls |-> <<>>, written |-> <<>>]}
      ELSE writeBatches(v.writeRequests, 0, <<>>, <<>>)

StudyBatches == UNION {[1..n -> StudyRequests] : n \in 0..MaxRequest}

\* Handler of the batch study ingestion, for one request
Handler_AddMultipleStudies(studies) ==
  \E r \in putMultipleItemsToDynamoDB(studies) :
    /\ Pending
    /\ StoredItems + Len(r.written) <= MaxItems
    /\ studies_table' \in PutAllInto(studies_table, r.written)
    /\ response' = [handler |-> "add_multiple_studies",
                    request |-> studies,
                    err |-> r.err,
                    statusCode |-> IF r.err = "" THEN 200 ELSE 0,
                    calls |-> r.calls,
                    written |-> r.written,
                    count |-> IF r.err = "" THEN Len(studies) ELSE 0]
    /\ UNCHANGED <<questions_table, previous>>

\* a batch request of a few studies
AddMultipleStudies == \E studies \in StudyBatches : Handler_AddMultipleStudies(studies)

\* the lengths of the long requests: one full batch, one more, two full ones
LongRequestLengths == {maxBatchSize, maxBatchSize + 1, 2 * maxBatchSize}

\* a request of n valid studies, each differing from its neighbours
LongRequest(n) ==
  [i \in 1..n |->
     [StudyTheme |-> IF i % 2 = 0 THEN "math" ELSE "algo",
      StudyDate |-> IF i % 3 = 0 THEN D_15_01_2024 ELSE D_01_02_2024,
      StudyMinutes |-> Str(<<"3", "0">>)]]

LongStudyBatches == {LongRequest(n) : n \in LongRequestLengths}

\* a batch request long enough to fill a BatchWriteItem call
AddManyStudies == \E studies \in LongStudyBatches : Handler_AddMultipleStudies(studies)

\* ------------------------------- veet_code_questions_table: ingestion
\* second program of src/unnamed/part_000 (single question) and
\* src/lambda_add_multiple_questions_to_dynamo.go (several questions)

\* the question requests the ingestion handlers are fed
QuestionRequests ==
  {[QuestionName |-> "two-sum", QuestionDate |-> D_15_01_2024,
    QuestionDifficulty |-> "easy",
    QuestionTags |-> [nil |-> FALSE, elems |-> <<"array", "dp">>]],
   [QuestionName |-> "two-sum", QuestionDate |-> D_01_02_2024,
    QuestionDifficulty |-> "easy",
    QuestionTags |-> [nil |-> FALSE, elems |-> <<"dp", "dp">>]],
   [QuestionName |-> "lru-cache", QuestionDate |-> D_10,
    QuestionDifficulty |-> "hard",
    QuestionTags |-> NilSlice]}

\* the item a question is stored as
QuestionItem(request, tagsJSON) ==
  [question_name |-> request.QuestionName,
   question_solved_date |-> request.QuestionDate,
   difficulty |-> request.QuestionDifficulty,
   tags |-> tagsJSON]

\* putItemToDynamoDB (question): the outcome of one call.  putOk is whether
\* PutItem succeeds.
putItemToDynamoDB_Question(request, tagsJSON, putOk) ==
  LET item == QuestionItem(request, tagsJSON)
  IN  IF putOk THEN [err |-> "", calls |-> <<item>>, written |-> <<item>>]
      ELSE [err |-> "failed to put item in DynamoDB", calls |-> <<item>>, written |-> <<>>]

\* Handler of the single-question ingestion
AddQuestion ==
  \E request \in QuestionRequests, putOk \in BOOLEAN :
    LET r == putItemToDynamoDB_Question(request, jsonMarshalTags(request.QuestionTags), putOk)
    IN  /\ Pending
        /\ StoredItems + Len(r.written) <= MaxItems
        /\ questions_table' \in PutAllInto(questions_table, r.written)
        /\ response' = [handler |-> "add_question",
                        request |-> <<request>>,
                        err |-> r.err,
                        statusCode |-> IF r.err = "" THEN 200 ELSE 0,
                        calls |-> r.calls,
                        written |-> r.written,
                        count |-> IF r.err = "" THEN 1 ELSE 0]
        /\ UNCHANGED <<studies_table, previous>>

RECURSIVE putQuestions_KeepsGoing(_, _, _, _)
\* mutant: after a failed PutItem the loop goes on and the error is returned
\* at the end
putQuestions_KeepsGoing(requests, i, acc, successCount) ==
  IF i > Len(requests)
  THEN {[err |-> "", calls |-> acc.calls, written |-> acc.written,
         successCount |-> successCount]}
  ELSE UNION {LET r == putItemToDynamoDB_Question(
                         requests[i], jsonMarshalTags(requests[i].QuestionTags), putOk)
                  next == [calls |-> acc.calls \o r.calls,
                           written |-> acc.written \o r.written]
              IN  IF r.err # ""
                  THEN {[rest EXCEPT !.err = r.err]
                          : rest \in putQuestions_KeepsGoing(requests, i + 1, next,
                                                             successCount)}
                  ELSE putQuestions_KeepsGoing(requests, i + 1, next, successCount + 1)
              : putOk \in BOOLEAN}

RECURSIVE putQuestions(_, _, _, _)
\* the loop of the Handler of the multi-question ingestion, from the i-th
\* request: the set of [err, calls, written, successCount] it can end with
putQuestions(requests, i, acc, successCount) ==
  IF i > Len(requests)
  THEN {[err |-> "", calls |-> acc.calls, written |-> acc.written,
         successCount |-> successCount]}
  ELSE UNION {LET r == putItemToDynamoDB_Question(
                         requests[i], jsonMarshalTags(requests[i].QuestionTags), putOk)
                  next == [calls |-> acc.calls \o r.calls,
                           written |-> acc.written \o r.written]
              IN  IF r.err # ""
                  THEN {[err |-> r.err, calls |-> next.calls, written |-> next.written,
                         successCount |-> successCount]}
                  ELSE putQuestions(requests, i + 1, next, successCount + 1)
              : putOk \in BOOLEAN}

QuestionBatches == UNION {[1..n -> QuestionRequests] : n \in 0..MaxRequest}

\* Handler of the multi-question ingestion
AddMultipleQuestions ==
  \E requests \in QuestionBatches :
    \E r \in putQuestions(requests, 1, [calls |-> <<>>, written |-> <<>>], 0) :
      /\ Pending
      /\ StoredItems + Len(r.written) <= MaxItems
      /\ questions_table' \in PutAllInto(questions_table, r.written)
      /\ response' = [handler |-> "add_multiple_questions",
                      request |-> requests,
                      err |-> r.err,
                      statusCode |-> IF r.err = "" THEN 200 ELSE 0,
                      calls |-> r.calls,
                      written |-> r.written,
                      count |-> IF r.err = "" THEN r.successCount ELSE 0]
      /\ UNCHANGED <<studies_table, previous>>

\* --------------------------------------------- studies_table: ordered report
\* first program of src/study_statistics/lambda_retrieve_ordered_stats_from_studies.go

\* attributevalue.UnmarshalListOfMaps into StudyRecord
StudyRecordOf(item) ==
  [Date |-> item.study_date,
   Theme |-> item.study_theme,
   Minutes |-> Atoi(item.minutes_of_study).n]

\* fetchStudyRecords, when every page of the scan arrives
fetchStudyRecords == [i \in 1..Len(studies_table) |-> StudyRecordOf(studies_table[i])]

\* mutant: the records are ordered by their date strings
lessByDate_AsStrings(ri, rj) == StrLess(ri.Date, rj.Date)

\* the less function of generateStatistics: a parse error is dropped and the
\* zero time compared
lessByDate(ri, rj) ==
  LET dateI == Parsed[ri.Date].t
      dateJ == Parsed[rj.Date].t
  IN  Before(dateI, dateJ)

\* sort.Slice(records, less): sorted by less; the order of the records that
\* compare equal is not specified
SortSlice(records) ==
  {p \in Perms(records) : \A i, j \in 1..Len(p) : i < j => ~lessByDate(p[j], p[i])}

\* mutant: a new day starts from its own minutes
addToTotalMinutesPerDay_OwnSum(totalMinutesPerDay, record) ==
  LET e == totalMinutesPerDay.elems
      hits == {i \in 1..Len(e) : e[i].Date = record.Date}
  IN  IF hits # {}
      THEN LET i == CHOOSE x \in hits : \A y \in hits : x <= y
           IN  [totalMinutesPerDay EXCEPT
                  !.elems[i].Minutes = @ + record.Minutes,
                  !.elems[i].Themes = MapAdd(@, record.Theme, record.Minutes)]
      ELSE GoAppend(totalMinutesPerDay,
                    [Date |-> record.Date,
                     Minutes |-> record.Minutes,
                     Themes |-> MapSet(EmptyMap, record.Theme, record.Minutes)])

\* mutant: the themes of a new day start from the running total
addToTotalMinutesPerDay_RunningThemes(totalMinutesPerDay, record) ==
  LET e == totalMinutesPerDay.elems
      hits == {i \in 1..Len(e) : e[i].Date = record.Date}
  IN  IF hits # {}
      THEN LET i == CHOOSE x \in hits : \A y \in hits : x <= y
           IN  [totalMinutesPerDay EXCEPT
                  !.elems[i].Minutes = @ + record.Minutes,
                  !.elems[i].Themes = MapAdd(@, record.Theme, record.Minutes)]
      ELSE LET previousDayMinutes == IF Len(e) > 0 THEN e[Len(e)].Minutes ELSE 0
           IN  GoAppend(totalMinutesPerDay,
                        [Date |-> record.Date,
                         Minutes |-> previousDayMinutes + record.Minutes,
                         Themes |-> MapSet(EmptyMap, record.Theme,
                                           previousDayMinutes + record.Minutes)])

\* addToTotalMinutesPerDay
addToTotalMinutesPerDay(totalMinutesPerDay, record) ==
  LET e == totalMinutesPerDay.elems
      hits == {i \in 1..Len(e) : e[i].Date = record.Date}
  IN  IF hits # {}
      THEN LET i == CHOOSE x \in hits : \A y \in hits : x <= y
           IN  [totalMinutesPerDay EXCEPT
                  !.elems[i].Minutes = @ + record.Minutes,
                  !.elems[i].Themes = MapAdd(@, record.Theme, record.Minutes)]
      ELSE LET previousDayMinutes == IF Len(e) > 0 THEN e[Len(e)].Minutes ELSE 0
           IN  GoAppend(totalMinutesPerDay,
                        [Date |-> record.Date,
                         Minutes |-> previousDayMinutes + record.Minutes,
                         Themes |-> MapSet(EmptyMap, record.Theme, record.Minutes)])

\* the loop variables of generateStatistics before the first record
StudyLoopInit ==
  [themeMinutes |-> EmptyMap,
   minutesPerThemePerDay |-> EmptyMap,
   totalMinutesPerDay |-> EmptySlice,
   totalMinutesStudied |-> 0]

\* mutant: the global total is assigned, not accumulated
StudyLoopBody_TotalAssigned(acc, record) ==
  LET themeMinutes == MapAdd(acc.themeMinutes, record.Theme, record.Minutes)
      perDay == IF record.Theme \in DOMAIN acc.minutesPerThemePerDay
                THEN acc.minutesPerThemePerDay[record.Theme] ELSE EmptyMap
  IN  [themeMinutes |-> themeMinutes,
       minutesPerThemePerDay |->
         MapSet(acc.minutesPerThemePerDay, record.Theme,
                MapSet(perDay, record.Date, themeMinutes[record.Theme])),
       totalMinutesPerDay |-> addToTotalMinutesPerDay(acc.totalMinutesPerDay, record),
       totalMinutesStudied |-> record.Minutes]

\* one iteration of the loop of generateStatistics
StudyLoopBody(acc, record) ==
  LET themeMinutes == MapAdd(acc.themeMinutes, record.Theme, record.Minutes)
      perDay == IF record.Theme \in DOMAIN acc.minutesPerThemePerDay
                THEN acc.minutesPerThemePerDay[record.Theme] ELSE EmptyMap
  IN  [themeMinutes |-> themeMinutes,
       minutesPerThemePerDay |->
         MapSet(acc.minutesPerThemePerDay, record.Theme,
                MapSet(perDay, record.Date, themeMinutes[record.Theme])),
       totalMinutesPerDay |-> addToTotalMinutesPerDay(acc.totalMinutesPerDay, record),
       totalMinutesStudied |-> acc.totalMinutesStudied + record.Minutes]

RECURSIVE StudyLoop(_, _)
\* the loop of generateStatistics: the loop variables before the first record
\* and after each record
StudyLoop(records, steps) ==
  IF records = <<>> THEN steps
  ELSE StudyLoop(Tail(records),
                 Append(steps, StudyLoopBody(steps[Len(steps)], Head(records))))

\* generateStatistics (ordered study report): the set of
\* [stats, records, steps]; records is the caller's slice after the call,
\* sorted in place.
generateStatistics_OrderedStudies(records) ==
  {LET steps == StudyLoop(sorted, <<StudyLoopInit>>)
       last == steps[Len(steps)]
   IN  [stats |-> [TotalMinutesStudied |-> last.totalMinutesStudied,
                   TotalMinutesPerDay |-> last.totalMinutesPerDay,
                   MinutesPerThemePerDay |-> last.minutesPerThemePerDay],
        records |-> sorted,
        steps |-> steps]
   : sorted \in SortSlice(records)}

\* Handler of the ordered study report
RetrieveOrderedStatsFromStudies ==
  /\ Pending
  /\ \/ \E g \in generateStatistics_OrderedStudies(fetchStudyRecords) :
          response' = [handler |-> "ordered_stats_studies",
                       statusCode |-> 200,
                       fetched |-> fetchStudyRecords,
                       records |-> g.records,
                       steps |-> g.steps,
                       stats |-> g.stats,
                       body |-> [totalMinutesStudied |-> g.stats.TotalMinutesStudied,
                                 totalMinutesPerDay |->
                                   jsonMarshalSlice(g.stats.TotalMinutesPerDay),
                                 minutesPerThemePerDay |->
                                   g.stats.MinutesPerThemePerDay]]
     \/ response' = [handler |-> "ordered_stats_studies", statusCode |-> 500]
  /\ UNCHANGED <<questions_table, studies_table, previous>>

\* ------------------------------------------- studies_table: map-based report
\* third program of src/unnamed/part_001

\* attributevalue.UnmarshalListOfMaps into Study
StudyOf(item) ==
  [StudyTheme |-> item.study_theme,
   StudyDate |-> item.study_date,
   MinutesOfStudy |-> Atoi(item.minutes_of_study).n]

\* fetchAllStudies, when every page of the scan arrives
fetchAllStudies == [i \in 1..Len(studies_table) |-> StudyOf(studies_table[i])]

RECURSIVE generateStatistics_Studies(_, _)
\* generateStatistics (study report with per-day maps): the loop over studies
generateStatistics_Studies(studies, stats) ==
  IF studies = <<>> THEN stats
  ELSE LET study == Head(studies)
       IN  generateStatistics_Studies(
             Tail(studies),
             [StudiesPerDay |-> MapAdd(stats.StudiesPerDay, study.StudyDate, 1),
              StudiesPerTheme |-> MapAdd(stats.StudiesPerTheme, study.StudyTheme, 1),
              TotalMinutesStudied |-> stats.TotalMinutesStudied + study.MinutesOfStudy,
              TotalMinutesPerDay |->
                MapAdd(stats.TotalMinutesPerDay, study.StudyDate, study.MinutesOfStudy)])

\* the Statistics literal generateStatistics starts from
StudyStatsInit ==
  [StudiesPerDay |-> EmptyMap,
   StudiesPerTheme |-> EmptyMap,
   TotalMinutesStudied |-> 0,
   TotalMinutesPerDay |-> EmptyMap]

\* Handler of the map-based study report
RetrieveStatsFromStudies ==
  /\ Pending
  /\ \/ response' = [handler |-> "stats_studies",
                     statusCode |-> 200,
                     fetched |-> fetchAllStudies,
                     records |-> fetchAllStudies,
                     stats |-> generateStatistics_Studies(fetchAllStudies, StudyStatsInit)]
     \/ response' = [handler |-> "stats_studies", statusCode |-> 500]
  /\ UNCHANGED <<questions_table, studies_table, previous>>

\* ------------------------------- veet_code_questions_table: ordered report
\* third program of src/unnamed/part_000

\* fetchAllQuestions, when every page of the scan arrives
QuestionOf(item) ==
  [Name |-> item.question_name,
   Date |-> item.question_solved_date,
   Difficulty |-> item.difficulty,
   Tags |-> jsonUnmarshalTags(item.tags)]

fetchAllQuestions == [i \in 1..Len(questions_table) |-> QuestionOf(questions_table[i])]

RECURSIVE countTags(_, _)
\* for _, tag := range q.Tags { QuestionsCrackedPerTag[tag]++ }
countTags(perTag, tags) ==
  IF tags = <<>> THEN perTag
  ELSE countTags(MapAdd(perTag, Head(tags), 1), Tail(tags))

QuestionLoopInit ==
  [dailyStats |-> EmptyMap,
   QuestionsCrackedPerDifficulty |-> EmptyMap,
   QuestionsCrackedPerTag |-> EmptyMap,
   TotalQuestionsCracked |-> 0]

\* mutant: the count of a day is set to 1, not incremented
QuestionLoopBody_DaySet(acc, q) ==
  [dailyStats |-> MapSet(acc.dailyStats, q.Date, 1),
   QuestionsCrackedPerDifficulty |-> MapAdd(acc.QuestionsCrackedPerDifficulty, q.Difficulty, 1),
   QuestionsCrackedPerTag |-> countTags(acc.QuestionsCrackedPerTag, q.Tags.elems),
   TotalQuestionsCracked |-> acc.TotalQuestionsCracked + 1]

\* one iteration of the first loop of generateStatistics
QuestionLoopBody(acc, q) ==
  [dailyStats |-> MapAdd(acc.dailyStats, q.Date, 1),
   QuestionsCrackedPerDifficulty |-> MapAdd(acc.QuestionsCrackedPerDifficulty, q.Difficulty, 1),
   QuestionsCrackedPerTag |-> countTags(acc.QuestionsCrackedPerTag, q.Tags.elems),
   TotalQuestionsCracked |-> acc.TotalQuestionsCracked + 1]

RECURSIVE QuestionLoop(_, _)
QuestionLoop(questions, acc) ==
  IF questions = <<>> THEN acc
  ELSE QuestionLoop(Tail(questions), QuestionLoopBody(acc, Head(questions)))

\* mutant: the dates are compared as strings, parsed or not
lessDates_AsStrings(a, b) == StrLess(a, b)

\* the less function of getSortedDates
lessDates(a, b) ==
  LET p1 == Parsed[a]
      p2 == Parsed[b]
  IN  IF p1.err \/ p2.err THEN StrLess(a, b) ELSE Before(p1.t, p2.t)

RECURSIVE insertDate(_, _)
\* the inner loop of the insertion sort of sort.SliceStable: the element at j
\* moves left while it is less than its left neighbour
insertDate(dates, j) ==
  IF j > 1 /\ lessDates(dates[j], dates[j - 1])
  THEN insertDate([dates EXCEPT ![j] = dates[j - 1], ![j - 1] = dates[j]], j - 1)
  ELSE dates

RECURSIVE insertionSortDates(_, _)
\* sort.SliceStable below 20 elements: one insertion sort
insertionSortDates(dates, i) ==
  IF i > Len(dates) THEN dates
  ELSE insertionSortDates(insertDate(dates, i), i + 1)

\* for date := range dateMap: the keys in an order of the runtime's choosing
RangeOrders(m) ==
  LET n == Cardinality(DOMAIN m)
  IN  {o \in [1..n -> DOMAIN m] : \A i, j \in 1..n : i # j => o[i] # o[j]}

\* getSortedDates: the slices it can return
getSortedDates(dateMap) ==
  {insertionSortDates(dates, 2) : dates \in RangeOrders(dateMap)}

RECURSIVE orderedLoop_NoRunningTotal(_, _, _, _, _)
\* mutant: the incremental series repeats the count of the day
orderedLoop_NoRunningTotal(sortedDates, i, dailyStats, out, runningTotal) ==
  IF i > Len(sortedDates) THEN out
  ELSE LET date == sortedDates[i]
           count == dailyStats[date]
       IN  orderedLoop_NoRunningTotal(sortedDates, i + 1, dailyStats,
                       [orderedQuestions |->
                          GoAppend(out.orderedQuestions, [Date |-> date, Count |-> count]),
                        incrementalQuestions |->
                          GoAppend(out.incrementalQuestions,
                                   [Date |-> date, Count |-> count])],
                       runningTotal + count)

RECURSIVE orderedLoop(_, _, _, _, _)
\* the second loop of generateStatistics, from the i-th sorted date
orderedLoop(sortedDates, i, dailyStats, out, runningTotal) ==
  IF i > Len(sortedDates) THEN out
  ELSE LET date == sortedDates[i]
           count == dailyStats[date]
       IN  orderedLoop(sortedDates, i + 1, dailyStats,
                       [orderedQuestions |->
                          GoAppend(out.orderedQuestions, [Date |-> date, Count |-> count]),
                        incrementalQuestions |->
                          GoAppend(out.incrementalQuestions,
                                   [Date |-> date, Count |-> runningTotal + count])],
                       runningTotal + count)

\* generateStatistics (ordered question report): the Statistics it can return
generateStatistics_OrderedQuestions(questions) ==
  LET acc == QuestionLoop(questions, QuestionLoopInit)
  IN  {LET out == orderedLoop(sortedDates, 1, acc.dailyStats,
                              [orderedQuestions |-> NilSlice,
                               incrementalQuestions |-> NilSlice], 0)
       IN  [QuestionsCrackedPerDay |-> out.orderedQuestions,
            QuestionsCrackedPerDifficulty |-> acc.QuestionsCrackedPerDifficulty,
            QuestionsCrackedPerTag |-> acc.QuestionsCrackedPerTag,
            TotalQuestionsCracked |-> acc.TotalQuestionsCracked,
            IncrementalQuestionsCrackedPerDay |-> out.incrementalQuestions]
       : sortedDates \in getSortedDates(acc.dailyStats)}

\* Handler of the ordered question report
RetrieveOrderedStatsFromQuestions ==
  /\ Pending
  /\ \/ \E stats \in generateStatistics_OrderedQuestions(fetchAllQuestions) :
          response' = [handler |-> "ordered_stats_questions",
                       statusCode |-> 200,
                       fetched |-> fetchAllQuestions,
                       records |-> fetchAllQuestions,
                       stats |-> stats,
                       body |-> [questionsCrackedPerDay |->
                                   jsonMarshalSlice(stats.QuestionsCrackedPerDay),
                                 questionsCrackedPerDifficulty |->
                                   stats.QuestionsCrackedPerDifficulty,
                                 questionsCrackedPerTag |-> stats.QuestionsCrackedPerTag,
                                 totalQuestionsCracked |-> stats.TotalQuestionsCracked,
                                 incrementalQuestionsCrackedPerDay |->
                                   jsonMarshalSlice(stats.IncrementalQuestionsCrackedPerDay)]]
     \/ response' = [handler |-> "ordered_stats_questions", statusCode |-> 500]
  /\ UNCHANGED <<questions_table, studies_table, previous>>

\* ------------------------------- veet_code_questions_table: map-based report
\* fourth program of src/unnamed/part_000

\* generateStatistics (question report with a per-day map)
generateStatistics_Questions(questions) ==
  LET acc == QuestionLoop(questions, QuestionLoopInit)
  IN  [QuestionsCrackedPerDay |-> acc.dailyStats,
       QuestionsCrackedPerDifficulty |-> acc.QuestionsCrackedPerDifficulty,
       QuestionsCrackedPerTag |-> acc.QuestionsCrackedPerTag,
       TotalQuestionsCracked |-> acc.TotalQuestionsCracked]

\* Handler of the map-based question report
RetrieveStatsFromQuestions ==
  /\ Pending
  /\ \/ response' = [handler |-> "stats_questions",
                     statusCode |-> 200,
                     fetched |-> fetchAllQuestions,
                     records |-> fetchAllQuestions,
                     stats |-> generateStatistics_Questions(fetchAllQuestions)]
     \/ response' = [handler |-> "stats_questions", statusCode |-> 500]
  /\ UNCHANGED <<questions_table, studies_table, previous>>

\* ------------------------------------------------------------ specification

\* ingestion, from empty tables
InitIngest ==
  /\ questions_table = <<>>
  /\ studies_table = <<>>
  /\ response = NoResponse
  /\ previous = NoResponse

NextStudyIngest ==
  \/ NextInvocation
  \/ AddStudy
  \/ AddMultipleStudies

SpecStudyIngest == InitIngest /\ [][NextStudyIngest]_vars

\* batch study ingestion, short and long requests
NextStudyBatches ==
  \/ NextInvocation
  \/ AddMultipleStudies
  \/ AddManyStudies

SpecStudyBatches == InitIngest /\ [][NextStudyBatches]_vars

NextQuestionIngest ==
  \/ NextInvocation
  \/ AddQuestion
  \/ AddMultipleQuestions

SpecQuestionIngest == InitIngest /\ [][NextQuestionIngest]_vars

\* every ingestion handler
NextIngest == NextStudyIngest \/ NextQuestionIngest

SpecIngest == InitIngest /\ [][NextIngest]_vars

\* the study reports, over any studies_table
InitStudyReports ==
  /\ questions_table = <<>>
  /\ studies_table \in Tables(StudyItems, MaxItems)
  /\ response = NoResponse
  /\ previous = NoResponse

NextStudyReports ==
  \/ NextInvocation
  \/ RetrieveOrderedStatsFromStudies
  \/ RetrieveStatsFromStudies

SpecStudyReports == InitStudyReports /\ [][NextStudyReports]_vars

\* the question reports, over any veet_code_questions_table
InitQuestionReports ==
  /\ questions_table \in Tables(QuestionItems, MaxItems)
  /\ studies_table = <<>>
  /\ response = NoResponse
  /\ previous = NoResponse

NextQuestionReports ==
  \/ NextInvocation
  \/ RetrieveOrderedStatsFromQuestions
  \/ RetrieveStatsFromQuestions

SpecQuestionReports == InitQuestionReports /\ [][NextQuestionReports]_vars

\* every report: each handler reads its own table only
InitReports == InitStudyReports \/ InitQuestionReports

NextReports == NextStudyReports \/ NextQuestionReports

SpecReports == InitReports /\ [][NextReports]_vars

\* =================================================================== claims

Answered(h) == response.handler = h /\ response.statusCode = 200

IsReport == \E h \in {"ordered_stats_studies", "stats_studies",
                      "ordered_stats_questions", "stats_questions"} : Answered(h)

Range(s) == {s[i] : i \in 1..Len(s)}

Occurrences(s, x) == Cardinality({i \in 1..Len(s) : s[i] = x})

RECURSIVE SumAmounts(_)
\* the sum of the amounts of a finite set of <<thing, amount>> pairs
SumAmounts(P) ==
  IF P = {} THEN 0
  ELSE LET x == CHOOSE y \in P : TRUE IN x[2] + SumAmounts(P \ {x})

\* the sum of a metric over a record set, which has no order: each distinct
\* record counts as many times as it occurs
MetricSum(records, metric(_)) ==
  SumAmounts({<<r, Occurrences(records, r) * metric(r)>> : r \in Range(records)})

MinutesOf(r) == r.Minutes
MinutesOfStudyOf(r) == r.MinutesOfStudy
One(r) == 1

\* C1: the total of every report is the sum of the metrics of the records it
\* was computed from (1 per question, the minutes per study), whatever the
\* order the records came in.
C1_TotalIsSumOfMetrics ==
  /\ Answered("ordered_stats_studies") =>
       response.stats.TotalMinutesStudied = MetricSum(response.fetched, MinutesOf)
  /\ Answered("stats_studies") =>
       response.stats.TotalMinutesStudied = MetricSum(response.fetched, MinutesOfStudyOf)
  /\ Answered("ordered_stats_questions") =>
       response.stats.TotalQuestionsCracked = MetricSum(response.fetched, One)
  /\ Answered("stats_questions") =>
       response.stats.TotalQuestionsCracked = MetricSum(response.fetched, One)

\* a study report over three records that the sort reordered, two of them equal
C1_Witness ==
  /\ Answered("ordered_stats_studies")
  /\ Len(response.fetched) = 3
  /\ response.records # response.fetched
  /\ Cardinality(Range(response.fetched)) = 2
  /\ response.stats.TotalMinutesStudied = 55

AllDatesParse(dates) == \A d \in dates : ~timeParse(d).err

\* the dates of a per-day series are in strictly ascending calendar order
CalendarAscending(series) ==
  \A i, j \in 1..Len(series) :
     i < j => Before(timeParse(series[i].Date).t, timeParse(series[j].Date).t)

\* C2: when every date parses as DD/MM/YYYY, the per-day series of the ordered
\* reports are in strictly ascending calendar order of the parsed dates (so
\* "15/01/2024" comes before "01/02/2024", against their string order).
C2_PerDayInCalendarOrder ==
  /\ (Answered("ordered_stats_questions")
        /\ AllDatesParse({q.Date : q \in Range(response.fetched)})) =>
       CalendarAscending(response.stats.QuestionsCrackedPerDay.elems)
  /\ (Answered("ordered_stats_studies")
        /\ AllDatesParse({r.Date : r \in Range(response.fetched)})) =>
       CalendarAscending(response.stats.TotalMinutesPerDay.elems)

\* the example of the claim: "01/02/2024" came first and is smaller as a
\* string, "15/01/2024" is reported first
C2_Witness ==
  /\ Answered("ordered_stats_questions")
  /\ Len(response.fetched) = 2
  /\ response.fetched[1].Date = D_01_02_2024
  /\ response.fetched[2].Date = D_15_01_2024
  /\ StrLess(D_01_02_2024, D_15_01_2024)
  /\ response.stats.QuestionsCrackedPerDay.elems =
       <<[Date |-> D_15_01_2024, Count |-> 1], [Date |-> D_01_02_2024, Count |-> 1]>>

RECURSIVE SumCounts(_, _)
\* the sum of the first i counts of a series
SumCounts(series, i) == IF i = 0 THEN 0 ELSE SumCounts(series, i - 1) + series[i].Count

\* C3: in the ordered question report the incremental series has the dates of
\* the per-day series in the same order, its i-th count is the sum of the
\* first i per-day counts, it never decreases, and for a non-empty input it
\* ends at the total.
C3_IncrementalIsPrefixSum ==
  Answered("ordered_stats_questions") =>
    LET perDay == response.stats.QuestionsCrackedPerDay.elems
        inc == response.stats.IncrementalQuestionsCrackedPerDay.elems
    IN  /\ Len(inc) = Len(perDay)
        /\ \A i \in 1..Len(inc) :
             /\ inc[i].Date = perDay[i].Date
             /\ inc[i].Count = SumCounts(perDay, i)
        /\ \A i \in 1..(Len(inc) - 1) : inc[i].Count <= inc[i + 1].Count
        /\ response.fetched # <<>> =>
             inc[Len(inc)].Count = response.stats.TotalQuestionsCracked

\* two questions on the first day, one on the second
C3_Witness ==
  /\ Answered("ordered_stats_questions")
  /\ Len(response.stats.IncrementalQuestionsCrackedPerDay.elems) = 2
  /\ response.stats.QuestionsCrackedPerDay.elems[1].Count = 2
  /\ response.stats.IncrementalQuestionsCrackedPerDay.elems[1].Count = 2
  /\ response.stats.IncrementalQuestionsCrackedPerDay.elems[2].Count = 3
  /\ response.stats.TotalQuestionsCracked = 3

Carries(q, t) == t \in Range(q.Tags.elems)

TagsOf(questions) == UNION {Range(q.Tags.elems) : q \in Range(questions)}

\* C4 (as claimed): each question counts once in the bucket of each tag it
\* carries and once in the total; a question without tags touches no bucket.
C4_OncePerTag ==
  (Answered("ordered_stats_questions") \/ Answered("stats_questions")) =>
    LET questions == response.fetched
        perTag == response.stats.QuestionsCrackedPerTag
    IN  /\ response.stats.TotalQuestionsCracked = Len(questions)
        /\ DOMAIN perTag = TagsOf(questions)
        /\ \A t \in DOMAIN perTag :
             perTag[t] = Cardinality({i \in 1..Len(questions) : Carries(questions[i], t)})

\* the order of section 4.1 of the specification on date strings: the
\* calendar when both parse, the bytes otherwise
OnOrBefore(e, d) ==
  IF ~timeParse(e).err /\ ~timeParse(d).err
  THEN ~Before(timeParse(d).t, timeParse(e).t)
  ELSE e = d \/ StrLess(e, d)

RECURSIVE SumMinutes(_)
SumMinutes(records) ==
  IF records = <<>> THEN 0 ELSE Head(records).Minutes + SumMinutes(Tail(records))

\* C5 (as claimed): minutesPerThemePerDay[T] has an entry for exactly the dates
\* on which theme T has a record, and the entry of date d is the sum of the
\* minutes of the records of T dated on or before d.
C5_PerThemeCumulative ==
  Answered("ordered_stats_studies") =>
    LET records == response.fetched
        perTheme == response.stats.MinutesPerThemePerDay
    IN  /\ DOMAIN perTheme = {r.Theme : r \in Range(records)}
        /\ \A T \in DOMAIN perTheme :
             /\ DOMAIN perTheme[T] = {r.Date : r \in {x \in Range(records) : x.Theme = T}}
             /\ \A d \in DOMAIN perTheme[T] :
                  LET upTo(r) == r.Theme = T /\ OnOrBefore(r.Date, d)
                  IN  perTheme[T][d] = SumMinutes(SelectSeq(records, upTo))

\* C5, for dates that all parse
C5_PerThemeCumulativeOfParsedDates ==
  (Answered("ordered_stats_studies")
     /\ AllDatesParse({r.Date : r \in Range(response.fetched)})) => C5_PerThemeCumulative

\* the dates of the per-day series of an ordered report
SeriesDates ==
  IF Answered("ordered_stats_questions")
  THEN [i \in 1..Len(response.stats.QuestionsCrackedPerDay.elems) |->
          response.stats.QuestionsCrackedPerDay.elems[i].Date]
  ELSE [i \in 1..Len(response.stats.TotalMinutesPerDay.elems) |->
          response.stats.TotalMinutesPerDay.elems[i].Date]

\* C6 (as claimed): a record whose date does not parse is reported under its
\* literal date string, and in the ordered output the dates that do not parse
\* are in ascending byte order among themselves.
C6_UnparseableDatesInByteOrder ==
  (Answered("ordered_stats_questions") \/ Answered("ordered_stats_studies")) =>
    /\ \A r \in Range(response.fetched) :
         timeParse(r.Date).err => r.Date \in Range(SeriesDates)
    /\ \A i, j \in 1..Len(SeriesDates) :
         (i < j /\ timeParse(SeriesDates[i]).err /\ timeParse(SeriesDates[j]).err)
           => StrLess(SeriesDates[i], SeriesDates[j])

EmptyArray == [null |-> FALSE, array |-> <<>>]

\* C7 (as claimed): the report of an empty record set has total 0 and every
\* collection present and empty, none null.
C7_EmptyInputEmptyCollections ==
  /\ (Answered("ordered_stats_questions") /\ response.fetched = <<>>) =>
       /\ response.body.totalQuestionsCracked = 0
       /\ response.body.questionsCrackedPerDay = EmptyArray
       /\ response.body.incrementalQuestionsCrackedPerDay = EmptyArray
       /\ response.body.questionsCrackedPerDifficulty = EmptyMap
       /\ response.body.questionsCrackedPerTag = EmptyMap
  /\ (Answered("ordered_stats_studies") /\ response.fetched = <<>>) =>
       /\ response.body.totalMinutesStudied = 0
       /\ response.body.totalMinutesPerDay = EmptyArray
       /\ response.body.minutesPerThemePerDay = EmptyMap

\* C7, for the study report alone
C7_EmptyStudyReport ==
  (Answered("ordered_stats_studies") /\ response.fetched = <<>>) =>
    C7_EmptyInputEmptyCollections

\* the text of an integer: an optional sign and one or more decimal digits
IsNumeric(s) ==
  \E k \in 0..1 :
     /\ Len(s) > k
     /\ (k = 1 => s[1] \in {43, 45})
     /\ \A i \in (k + 1)..Len(s) : s[i] \in 48..57

IsStudyIngestion(r) == r.handler \in {"add_study", "add_multiple_studies"}

HasNonNumericMinutes(r) ==
  IsStudyIngestion(r) /\ \E i \in 1..Len(r.request) : ~IsNumeric(r.request[i].StudyMinutes)

\* C8: a study ingestion call, single or batch, whose request has a study with
\* non-numeric minutes fails with the invalid-minutes error, issues no write
\* request and leaves the table as it was, the valid studies before the
\* invalid one included.
C8_NonNumericMinutesNothingWritten ==
  [][HasNonNumericMinutes(response') =>
       /\ response'.err = "invalid minutes_of_study"
       /\ response'.statusCode # 200
       /\ response'.calls = <<>>
       /\ studies_table' = studies_table
       /\ questions_table' = questions_table]_vars

\* a batch whose first study is valid and whose second is not, refused after
\* an earlier call had stored an item
C8_Witness ==
  /\ response.handler = "add_multiple_studies"
  /\ Len(response.request) = 2
  /\ IsNumeric(response.request[1].StudyMinutes)
  /\ ~IsNumeric(response.request[2].StudyMinutes)
  /\ response.err = "invalid minutes_of_study"
  /\ response.calls = <<>>
  /\ Len(studies_table) = 1

\* the text of a negative integer
IsNegative(s) == IsNumeric(s) /\ s[1] = 45 /\ \E i \in 2..Len(s) : s[i] # 48

\* C9 (as claimed): a study whose minutes denote a negative integer is refused
\* with the invalid-minutes error by single and batch ingestion, nothing of
\* the call is written, and no stored study has negative minutes.
C9_NegativeMinutesRejected ==
  /\ (IsStudyIngestion(response)
        /\ \E i \in 1..Len(response.request) :
              IsNegative(response.request[i].StudyMinutes)) =>
       /\ response.err = "invalid minutes_of_study"
       /\ response.written = <<>>
  /\ \A i \in 1..Len(studies_table) : ~IsNegative(studies_table[i].minutes_of_study)

RECURSIVE PerDayByRule(_, _)
\* the <<date, minutes>> series the rule of C10 builds from the records, taken
\* last to first: the series of the records before the last one, then the
\* last one added to the entry of its date, or appended after the last entry
PerDayByRule(records, n) ==
  IF n = 0 THEN <<>>
  ELSE LET before == PerDayByRule(records, n - 1)
           r == records[n]
       IN  IF \E i \in 1..Len(before) : before[i][1] = r.Date
           THEN [i \in 1..Len(before) |->
                   IF before[i][1] = r.Date THEN <<r.Date, before[i][2] + r.Minutes>>
                   ELSE before[i]]
           ELSE Append(before,
                       <<r.Date, (IF before = <<>> THEN 0 ELSE before[Len(before)][2])
                                   + r.Minutes>>)

\* C10: totalMinutesPerDay of the ordered study report is what the rule gives
\* over the records in sorted order: the minutes of a record go to the entry
\* of its date wherever that entry is, and a new date is appended with the
\* minutes of the current last entry (0 if none) plus the record's minutes.
C10_TotalMinutesPerDayRule ==
  Answered("ordered_stats_studies") =>
    LET perDay == response.stats.TotalMinutesPerDay.elems
        rule == PerDayByRule(response.records, Len(response.records))
    IN  /\ Len(perDay) = Len(rule)
        /\ \A i \in 1..Len(perDay) :
             /\ perDay[i].Date = rule[i][1]
             /\ perDay[i].Minutes = rule[i][2]

\* a date met again after another date was appended: the second entry was
\* seeded with the first one's 30 minutes, the third record went to the first
C10_Witness ==
  /\ Answered("ordered_stats_studies")
  /\ Len(response.records) = 3
  /\ response.records[1].Date = response.records[3].Date
  /\ response.records[2].Date # response.records[1].Date
  /\ \A i \in 1..3 : response.records[i].Minutes = 30
  /\ Len(response.stats.TotalMinutesPerDay.elems) = 2
  /\ response.stats.TotalMinutesPerDay.elems[1].Minutes = 60
  /\ response.stats.TotalMinutesPerDay.elems[2].Minutes = 60

\* the sum of the values of a map
SumValues(m) == SumAmounts({<<k, m[k]>> : k \in DOMAIN m})

\* C11: in the ordered study report the themes map of the entry of date d is
\* the breakdown of that day alone: its keys are the themes with a record
\* dated d, themes[T] is the sum of the minutes of the records of T dated d,
\* and its values sum to the minutes of the records dated d.
C11_ThemesArePerDay ==
  Answered("ordered_stats_studies") =>
    \A i \in 1..Len(response.stats.TotalMinutesPerDay.elems) :
       LET entry == response.stats.TotalMinutesPerDay.elems[i]
           onDay(r) == r.Date = entry.Date
       IN  /\ DOMAIN entry.Themes = {r.Theme : r \in {x \in Range(response.fetched) : onDay(x)}}
           /\ \A T \in DOMAIN entry.Themes :
                LET ofTheme(r) == onDay(r) /\ r.Theme = T
                IN  entry.Themes[T] = SumMinutes(SelectSeq(response.fetched, ofTheme))
           /\ SumValues(entry.Themes) = SumMinutes(SelectSeq(response.fetched, onDay))

\* a second day with two themes, whose running minutes differ from the sum of
\* its themes
C11_Witness ==
  /\ Answered("ordered_stats_studies")
  /\ Len(response.stats.TotalMinutesPerDay.elems) = 2
  /\ LET entry == response.stats.TotalMinutesPerDay.elems[2]
     IN  /\ DOMAIN entry.Themes = {"math", "algo"}
         /\ entry.Themes["math"] = 30
         /\ entry.Themes["algo"] = 0 - 5
         /\ entry.Minutes = 55

\* C12 (as claimed): after generateStatistics returns, the caller's record
\* sequence holds the records it held before the call, in the same order.
C12_InputUnchanged ==
  IsReport => response.records = response.fetched

\* C12, for the reports that do not sort their input
C12_InputUnchangedWithoutSort ==
  (Answered("stats_studies") \/ Answered("ordered_stats_questions")
     \/ Answered("stats_questions")) => response.records = response.fetched

\* the last two invocations were answered by the same report over the same
\* record sequence
SameReportTwice(h) ==
  /\ Answered(h)
  /\ previous.handler = h
  /\ previous.statusCode = 200
  /\ previous.fetched = response.fetched

\* C13 (as claimed): two invocations of a question report on the same record
\* sequence give identical reports, the order of the per-day and incremental
\* series included.
C13_SameInputSameReport ==
  \A h \in {"ordered_stats_questions", "stats_questions"} :
     SameReportTwice(h) => previous.stats = response.stats

\* C13, for the question report with a per-day map
C13_SameInputSameMapReport ==
  SameReportTwice("stats_questions") => previous.stats = response.stats

\* the date comparator of the ordered study report puts neither record first
ComparesEqual(r, q) ==
  /\ ~Before(timeParse(r.Date).t, timeParse(q.Date).t)
  /\ ~Before(timeParse(q.Date).t, timeParse(r.Date).t)

\* sorted is a stable arrangement of input: some assignment of the positions
\* of sorted to those of input keeps the records that compare equal in their
\* input order
StableArrangement(input, sorted) ==
  /\ Len(sorted) = Len(input)
  /\ \E f \in Permutations(1..Len(input)) :
        /\ \A i \in 1..Len(input) : sorted[i] = input[f[i]]
        /\ \A i, j \in 1..Len(input) :
             (i < j /\ ComparesEqual(input[f[i]], input[f[j]])) => f[i] < f[j]

\* the distinct dates of a record sequence in the order they first appear
FirstAppearances(records) ==
  LET first(i) == \A j \in 1..(i - 1) : records[j].Date # records[i].Date
      at == SelectSeq([i \in 1..Len(records) |-> i], first)
  IN  [k \in 1..Len(at) |-> records[at[k]].Date]

\* C14 (as claimed): in the ordered study report the records that compare
\* equal under the date comparator keep their input order, so among them the
\* date strings enter totalMinutesPerDay in the order they first appear in
\* the input.
C14_SortIsStable ==
  Answered("ordered_stats_studies") =>
    /\ StableArrangement(response.fetched, response.records)
    /\ LET perDay == response.stats.TotalMinutesPerDay.elems
           input == FirstAppearances(response.fetched)
           at(s, d) == CHOOSE i \in 1..Len(s) : s[i] = d
       IN  \A a, b \in 1..Len(perDay) :
              (a < b /\ timeParse(perDay[a].Date).t = timeParse(perDay[b].Date).t)
                => at(input, perDay[a].Date) < at(input, perDay[b].Date)

\* C14, as far as it goes: the records after the sort are the input records
\* in ascending order of the comparator
C14_SortedArrangement ==
  Answered("ordered_stats_studies") =>
    /\ \A r \in Range(response.fetched) :
         Occurrences(response.records, r) = Occurrences(response.fetched, r)
    /\ Len(response.records) = Len(response.fetched)
    /\ \A i, j \in 1..Len(response.records) :
         i < j => ~Before(timeParse(response.records[j].Date).t,
                          timeParse(response.records[i].Date).t)

IsIngestion(r) ==
  r.handler \in {"add_study", "add_multiple_studies", "add_question", "add_multiple_questions"}

\* C15 (as claimed): the count an ingestion handler reports with a success
\* response is the number of records the call wrote to storage.
C15_ReportedCountIsWritten ==
  (IsIngestion(response) /\ response.statusCode = 200) =>
    response.count = Len(response.written)

\* C15, for the handlers that write with PutItem
C15_ReportedCountIsWrittenByPutItem ==
  (response.handler \in {"add_study", "add_question", "add_multiple_questions"}
     /\ response.statusCode = 200) =>
    response.count = Len(response.written)

RECURSIVE SumMinutesOfStudy(_)
SumMinutesOfStudy(studies) ==
  IF studies = <<>> THEN 0
  ELSE Head(studies).MinutesOfStudy + SumMinutesOfStudy(Tail(studies))

\* the per-day map has one key per date of the records, and the given value
\* at each
PerDayMapIs(perDay, dates, value(_)) ==
  /\ DOMAIN perDay = dates
  /\ \A d \in dates : perDay[d] = value(d)

\* C16: in the question reports and in the map-based study report the
\* per-day output has exactly one entry per distinct date string of the
\* input, the entry of a date is the sum of the metrics of the records with
\* that date string, and the entries sum to the total.
C16_OneEntryPerDate ==
  /\ Answered("ordered_stats_questions") =>
       LET perDay == response.stats.QuestionsCrackedPerDay.elems
           questionsOn(d) == Cardinality({i \in 1..Len(response.fetched) :
                                           response.fetched[i].Date = d})
       IN  /\ \A i, j \in 1..Len(perDay) : i # j => perDay[i].Date # perDay[j].Date
           /\ {perDay[i].Date : i \in 1..Len(perDay)} =
                {q.Date : q \in Range(response.fetched)}
           /\ \A i \in 1..Len(perDay) : perDay[i].Count = questionsOn(perDay[i].Date)
           /\ SumCounts(perDay, Len(perDay)) = response.stats.TotalQuestionsCracked
  /\ Answered("stats_questions") =>
       LET questionsOn(d) == Cardinality({i \in 1..Len(response.fetched) :
                                           response.fetched[i].Date = d})
       IN  /\ PerDayMapIs(response.stats.QuestionsCrackedPerDay,
                          {q.Date : q \in Range(response.fetched)}, questionsOn)
           /\ SumValues(response.stats.QuestionsCrackedPerDay) =
                response.stats.TotalQuestionsCracked
  /\ Answered("stats_studies") =>
       LET minutesOn(d) ==
             LET dated(r) == r.StudyDate = d
             IN  SumMinutesOfStudy(SelectSeq(response.fetched, dated))
       IN  /\ PerDayMapIs(response.stats.TotalMinutesPerDay,
                          {r.StudyDate : r \in Range(response.fetched)}, minutesOn)
           /\ SumValues(response.stats.TotalMinutesPerDay) =
                response.stats.TotalMinutesStudied

\* three questions on two dates, the date of two of them reported once with
\* count 2
C16_Witness ==
  /\ Answered("ordered_stats_questions")
  /\ Len(response.fetched) = 3
  /\ response.fetched[1].Date = response.fetched[3].Date
  /\ response.fetched[2].Date # response.fetched[1].Date
  /\ Len(response.stats.QuestionsCrackedPerDay.elems) = 2
  /\ \E i \in 1..2 :
        response.stats.QuestionsCrackedPerDay.elems[i] =
          [Date |-> response.fetched[1].Date, Count |-> 2]

\* C17: in the ordered study report, when every date parses and no minutes
\* are negative, the minutes of the entry of day d are the sum of the minutes
\* of the records dated on or before d, the series never decreases, and its
\* last entry equals totalMinutesStudied.
C17_PerDayIsPrefixSumOverDays ==
  (/\ Answered("ordered_stats_studies")
   /\ AllDatesParse({r.Date : r \in Range(response.fetched)})
   /\ \A r \in Range(response.fetched) : r.Minutes >= 0) =>
    LET perDay == response.stats.TotalMinutesPerDay.elems
    IN  /\ \A i \in 1..Len(perDay) :
             LET upTo(r) == ~Before(timeParse(perDay[i].Date).t, timeParse(r.Date).t)
             IN  perDay[i].Minutes = SumMinutes(SelectSeq(response.fetched, upTo))
        /\ \A i \in 1..(Len(perDay) - 1) : perDay[i].Minutes <= perDay[i + 1].Minutes
        /\ response.fetched # <<>> =>
             perDay[Len(perDay)].Minutes = response.stats.TotalMinutesStudied

\* three records of 30 minutes scanned latest day first: 30 for 15/01/2024,
\* then 90 for 01/02/2024
C17_Witness ==
  /\ Answered("ordered_stats_studies")
  /\ Len(response.fetched) = 3
  /\ response.fetched[1].Date = D_01_02_2024
  /\ response.fetched[2].Date = D_15_01_2024
  /\ response.fetched[3].Date = D_01_02_2024
  /\ \A i \in 1..3 : response.fetched[i].Minutes = 30
  /\ Len(response.stats.TotalMinutesPerDay.elems) = 2
  /\ response.stats.TotalMinutesPerDay.elems[1].Date = D_15_01_2024
  /\ response.stats.TotalMinutesPerDay.elems[1].Minutes = 30
  /\ response.stats.TotalMinutesPerDay.elems[2].Minutes = 90
  /\ response.stats.TotalMinutesStudied = 90

RECURSIVE Flatten(_)
\* the items of a sequence of calls, in the order they were sent
Flatten(calls) == IF calls = <<>> THEN <<>> ELSE Head(calls) \o Flatten(Tail(calls))

\* the write request of the i-th study of a request
WriteRequestOf(study) ==
  [study_theme |-> study.StudyTheme,
   study_date |-> study.StudyDate,
   minutes_of_study |-> Itoa(Atoi(study.StudyMinutes).n)]

\* C18: batch study ingestion sends the validated write requests in
\* consecutive BatchWriteItem calls of at most 25 items: the calls carry the
\* requests in request order, each once, no call is empty, every call but
\* the last carries exactly 25, without an error every request is sent (none
\* for an empty request), and after a call that fails no further call is
\* issued while what the earlier calls wrote stays in the table.
C18_BatchesOfAtMost25 ==
  (response.handler = "add_multiple_studies"
     /\ response.err # "invalid minutes_of_study") =>
    LET calls == response.calls
        sent == Flatten(calls)
        all == [i \in 1..Len(response.request) |-> WriteRequestOf(response.request[i])]
    IN  /\ Len(sent) <= Len(all)
        /\ sent = SubSeq(all, 1, Len(sent))
        /\ \A k \in 1..Len(calls) : Len(calls[k]) \in 1..25
        /\ \A k \in 1..(Len(calls) - 1) : Len(calls[k]) = 25
        /\ response.err = "" => sent = all
        /\ response.err # "" =>
             /\ calls # <<>>
             /\ Len(calls[Len(calls)]) = 25 \/ sent = all
             /\ LET earlier == Flatten(SubSeq(calls, 1, Len(calls) - 1))
                IN  \A item \in Range(response.written) :
                       Occurrences(response.written, item) <= Occurrences(earlier, item)
        /\ \A item \in Range(response.written) :
             Occurrences(studies_table, item) >= Occurrences(response.written, item)

\* 26 studies: a call of 25 from which storage took two items, then a call of
\* 1 that failed; the two items are in the table
C18_Witness ==
  /\ response.handler = "add_multiple_studies"
  /\ Len(response.request) = 26
  /\ Len(response.calls) = 2
  /\ Len(response.calls[1]) = 25
  /\ Len(response.calls[2]) = 1
  /\ response.err = "failed to batch write items to DynamoDB"
  /\ Len(response.written) = 2
  /\ Len(studies_table) = 2

\* the item the i-th question of a request is stored as
ItemOfQuestion(q) ==
  [question_name |-> q.QuestionName,
   question_solved_date |-> q.QuestionDate,
   difficulty |-> q.QuestionDifficulty,
   tags |-> [null |-> q.QuestionTags.nil, array |-> q.QuestionTags.elems]]

\* the answer r to a multi-question request whose k-th PutItem failed
FailedAtQuestion(r, k) ==
  LET items == [i \in 1..Len(r.request) |-> ItemOfQuestion(r.request[i])]
  IN  /\ r.calls = SubSeq(items, 1, k)
      /\ r.written = SubSeq(items, 1, k - 1)
      /\ r.statusCode # 200
      /\ r.count = 0

\* C19: multi-question ingestion puts the questions one by one in request
\* order and stops at the first PutItem that fails: when the k-th put fails,
\* the first k-1 questions and no others have been written, they are in the
\* table after the call, no later question is attempted, and the handler
\* returns the error without a success response or count; a stored question
\* is never taken back.
C19_StopsAtFirstFailure ==
  [][/\ (response'.handler = "add_multiple_questions" /\ response'.err # "") =>
          /\ \E k \in 1..Len(response'.request) : FailedAtQuestion(response', k)
          /\ Len(questions_table') = Len(questions_table) + Len(response'.written)
          /\ \A item \in Range(response'.written) :
                Occurrences(questions_table', item) =
                  Occurrences(questions_table, item) + Occurrences(response'.written, item)
      /\ \A item \in Range(questions_table) :
            Occurrences(questions_table', item) >= Occurrences(questions_table, item)]_vars

\* two questions, the second put failed: the first one is in the table
C19_Witness ==
  /\ response.handler = "add_multiple_questions"
  /\ Len(response.request) = 2
  /\ response.err = "failed to put item in DynamoDB"
  /\ FailedAtQuestion(response, 2)
  /\ questions_table = <<ItemOfQuestion(response.request[1])>>

====
